---- MODULE Spec2Model ----
(***************************************************************************)
(* Movement-reconciliation engine of app-contratos                         *)
(* (services/movimentacao_service.py, utils/mov_utils.py).                 *)
(*                                                                         *)
(* The ledger (table contratos), the audit log (table contratos_logs),     *)
(* the header memo cache and one staged batch (movimentacao_lotes /        *)
(* movimentacao_itens) are the state.  aplicar_lote is one action; the     *)
(* per-row and per-pair code is translated into operators that thread the  *)
(* session (ledger, log, cache) through the batch exactly in the order of  *)
(* the code, with a savepoint around every row and every swap pair.        *)
(***************************************************************************)
EXTENDS Integers, Sequences, FiniteSets, TLC

\* ------------------------------------------------------------------ bounds
MaxRows == 3        \* rows in one staged batch
MaxData == 3        \* movement dates are the days 1..MaxData
MaxRuns == 2        \* aplicar_lote calls on the staged batch
MaxCabs == 4        \* contract headers in storage
MaxItens == 3       \* items of a ledger the finder is called on

\* ------------------------------------------------------ values and strings
Ausente == "<ausente>"      \* the key is not in the payload dict
Datas == 1..MaxData

\* str.strip() on the asset / client strings used in the model
Strip(s) ==
    CASE s = " X" -> "X"
      [] s = " Y" -> "Y"
      [] s = Ausente -> ""
      [] OTHER -> s

\* _as_str
AsStr(v) == Strip(v)

\* _row_get_str(row, key): first key present, stripped; "" when absent
RowGetStr(v) == IF v = Ausente THEN "" ELSE AsStr(v)

\* row.get(k) or alt  (Python truthiness of an optional string)
Truthy(v) == v # Ausente /\ v # ""

\* utils.mov_utils.norm_tp
norm_tp(tp) ==
    LET t == Strip(tp) IN
    CASE t = "" -> ""
      [] t \in {"envio", "env", "e", "ENVIO"} -> "ENVIO"
      [] t \in {"retorno", "ret", "r", "RETORNO"} -> "RETORNO"
      [] t \in {"troca", "trc", "t", "TROCA"} -> "TROCA"
      [] OTHER -> t

\* utils.mov_utils.make_mov_hash: sha256 of the delimited, stripped fields;
\* the digest is represented by the tuple of the fields it is computed from.
make_mov_hash(contrato_num, cod_cli, tp, ativo, data_iso, ativo_novo) ==
    << Strip(contrato_num), Strip(cod_cli), norm_tp(tp), Strip(ativo),
       Strip(ativo_novo), data_iso >>

\* utils.mov_utils.parse_data_mov: day number, 0 when the text is no date
parse_data_mov(d) == IF d \in Nat /\ d > 0 THEN d ELSE 0

\* ---------------------------------------------------------------- headers
VARIABLE cabs       \* table contratos_cabecalho: set of headers

\* contratos_cabecalho rows (id, contrato_num, cod_cli) the engine runs against
Cabecalhos ==
    { [id |-> 1, contrato_num |-> "C1", cod_cli |-> "1"],
      [id |-> 2, contrato_num |-> "C2", cod_cli |-> "2"] }

CabIds == { c.id : c \in cabs }

\* sess.get(ContratoCabecalho, cid): 0 stands for None
SessGetCab(cid) == IF cid \in CabIds THEN cid ELSE 0

MinId(S) == CHOOSE i \in S : \A j \in S : i <= j

\* _cabecalho_from_payload
cabecalho_from_payload(row) ==
    IF row.cabecalho_id_resolvido # 0 THEN SessGetCab(row.cabecalho_id_resolvido) ELSE 0

CacheKey(contrato_num, cod_cli) ==
    << contrato_num, IF AsStr(cod_cli) = "" THEN Ausente ELSE AsStr(cod_cli) >>

\* the two SELECTs of _find_cabecalho (contract + client, then contract alone)
LookupCab(contrato_num, cod_cli) ==
    LET both == { c.id : c \in { h \in cabs :
                        h.contrato_num = contrato_num /\ h.cod_cli = cod_cli } }
        byNum == { c.id : c \in { h \in cabs : h.contrato_num = contrato_num } }
    IN  IF cod_cli # Ausente /\ AsStr(cod_cli) # "" /\ both # {} THEN MinId(both)
        ELSE IF byNum # {} THEN MinId(byNum)
        ELSE 0

\* _find_cabecalho: result [cab, cache]
find_cabecalho(cache, contrato_num, cod_cli) ==
    LET key == CacheKey(contrato_num, cod_cli) IN
    IF key \in DOMAIN cache
    THEN [cab |-> IF cache[key] # 0 THEN SessGetCab(cache[key]) ELSE 0, cache |-> cache]
    ELSE LET cab == LookupCab(contrato_num, cod_cli)
         IN  [cab |-> cab, cache |-> (key :> cab) @@ cache]

\* _require_cabecalho: cab = 0 stands for the ValueError
require_cabecalho(cache, row, contrato_num, cod_cli) ==
    LET p == cabecalho_from_payload(row) IN
    IF p # 0 THEN [cab |-> p, cache |-> cache]
    ELSE find_cabecalho(cache, contrato_num, cod_cli)

\* ------------------------------------------------------------- the ledger
ATIVO == "ATIVO"
RETORNADO == "RETORNADO"

Abertos(cs, S) == { i \in S : cs[i].status = ATIVO }

\* ORDER BY data_envio ASC, id ASC LIMIT 1
PrimeiroMut(cs, S) == CHOOSE i \in S : \A j \in S : i <= j
Primeiro(cs, S) ==
    CHOOSE i \in S : \A j \in S :
        \/ cs[i].data_envio < cs[j].data_envio
        \/ (cs[i].data_envio = cs[j].data_envio /\ i <= j)

\* _find_item_aberto: id of the item found, 0 for None
find_item_aberto(cs, cab_id, cod_cli, ativo) ==
    LET base == Abertos(cs, { i \in DOMAIN cs : cs[i].ativo = ativo })
        t1 == { i \in base : cs[i].cabecalho_id = cab_id /\ cs[i].cod_cli = cod_cli }
        t2 == { i \in base : cs[i].cabecalho_id = cab_id }
    IN  IF cod_cli # Ausente /\ AsStr(cod_cli) # "" /\ t1 # {} THEN Primeiro(cs, t1)
        ELSE IF t2 # {} THEN Primeiro(cs, t2)
        ELSE IF base # {} THEN Primeiro(cs, base)
        ELSE 0

\* _soft_close_itens_por_ativo: UPDATE contratos SET ... WHERE ativo = :ativo
soft_close_itens_por_ativoMut(cs, ativo, data_retorno) ==
    SelectSeq(cs, LAMBDA it : it.ativo # ativo)
soft_close_itens_por_ativo(cs, ativo, data_retorno) ==
    IF ativo = "" THEN cs
    ELSE [ i \in DOMAIN cs |->
            IF cs[i].ativo = ativo
            THEN [cs[i] EXCEPT !.status = RETORNADO, !.data_retorno = data_retorno,
                               !.tp_transacao = "RETORNO"]
            ELSE cs[i] ]

\* {"cod_cli": cod_cli, "ativo": ativo, **row}: a key of the row wins
RowDict(cod_cli, ativo, row) ==
    [ cod_cli |-> IF row.cod_cli # Ausente THEN row.cod_cli ELSE cod_cli,
      ativo |-> IF row.ativo # Ausente THEN row.ativo ELSE ativo,
      campos_item |-> row.campos_item ]

\* _envio: [ok, cs]; ok = FALSE is the IntegrityError of the flush (a NOT NULL
\* column of contratos, cod_pro / descricao_produto / nome_cli, has no value)
envio(cs, rowd, cab, data_mov, mov_hash, override_data_envio, data_troca) ==
    LET item == [ id |-> Len(cs) + 1,
                  cabecalho_id |-> cab,
                  ativo |-> rowd.ativo,
                  cod_cli |-> rowd.cod_cli,
                  data_envio |-> IF override_data_envio # 0 THEN override_data_envio
                                 ELSE data_mov,
                  data_troca |-> data_troca,
                  data_retorno |-> 0,
                  tp_transacao |-> "ENVIO",
                  status |-> ATIVO,
                  mov_hash |-> mov_hash ]
    IN  IF rowd.campos_item THEN [ok |-> TRUE, cs |-> Append(cs, item)]
        ELSE [ok |-> FALSE, cs |-> cs]

\* _retorno: [ok, cs]; ok = FALSE is "RETORNO sem item ATIVO"
retorno(cs, rowd, cab, data_mov, mov_hash) ==
    LET aberto == find_item_aberto(cs, cab, rowd.cod_cli, rowd.ativo) IN
    IF aberto = 0 THEN [ok |-> FALSE, cs |-> cs]
    ELSE [ok |-> TRUE,
          cs |-> [cs EXCEPT ![aberto] =
                    [@ EXCEPT !.status = RETORNADO, !.data_retorno = data_mov,
                              !.tp_transacao = "RETORNO", !.mov_hash = mov_hash]]]

\* ContratoLog(... status="OK")
LogEntryMut(cab, cod_cli, ativo, tp, data_mov, mov_hash, mensagem) ==
    [ contrato_cabecalho_id |-> cab, cod_cli |-> cod_cli, ativo |-> ativo,
      tp_transacao |-> tp, data_mov |-> data_mov, mov_hash |-> << "", "", "", "", "", 0 >>,
      status |-> "OK", mensagem |-> mensagem ]
LogEntry(cab, cod_cli, ativo, tp, data_mov, mov_hash, mensagem) ==
    [ contrato_cabecalho_id |-> cab, cod_cli |-> cod_cli, ativo |-> ativo,
      tp_transacao |-> tp, data_mov |-> data_mov, mov_hash |-> mov_hash,
      status |-> "OK", mensagem |-> mensagem ]

\* select(ContratoLog.id).where(ContratoLog.mov_hash == h).first()
Dup(logs, h) == \E i \in DOMAIN logs : logs[i].mov_hash = h


\* ------------------------------------------------------- payload accessors
\* _tp
Tp(row) == norm_tp(RowGetStr(row.tp_transacao))

\* _tipo_troca
TipoTroca(row) == norm_tp(RowGetStr(row.tipo_troca))

\* _os_key
OsKey(row) == RowGetStr(row.os)

\* _canon
canon(row) ==
    [ contrato_num |-> RowGetStr(row.contrato_num),
      cod_cli |-> RowGetStr(row.cod_cli),
      ativo |-> IF Truthy(row.ativo_norm) THEN row.ativo_norm ELSE RowGetStr(row.ativo),
      data_mov |-> parse_data_mov(row.data_mov) ]

\* ---------------------------------------------------------------- savepoint
\* with sess.begin_nested(): an exception restores the ledger and the log to
\* their content at the savepoint (the header cache is a module global and is
\* not part of the transaction).
RollbackMut(antes, depois) == depois
Rollback(antes, depois) == antes

FalhaMut(s, cache, parcial, msg) ==
    [ res |-> "erro", msg |-> msg, cab |-> 0,
      cs |-> parcial.cs, logs |-> parcial.logs, cache |-> cache ]
Falha(s, cache, parcial, msg) ==
    [ res |-> "erro", msg |-> msg, cab |-> 0,
      cs |-> Rollback(s.cs, parcial.cs), logs |-> Rollback(s.logs, parcial.logs),
      cache |-> cache ]

\* ------------------------------------------------- one non-swap row (unit)
\* body of "for it in unitarios" (aplicar_lote, step 1).  s = [cs, logs, cache];
\* result res: "ok" applied, "dup" skipped as duplicate, "erro" rolled back.
Db(s) == [cs |-> s.cs, logs |-> s.logs]

CliOuNone(cod_cli) == IF cod_cli = "" THEN Ausente ELSE cod_cli

ReaplicaEnvioMut(cs, cab, cod_cli, ativo) == FALSE
ReaplicaEnvio(cs, cab, cod_cli, ativo) == find_item_aberto(cs, cab, cod_cli, ativo) = 0

ReaplicaRetorno(cs, cab, cod_cli, ativo) == find_item_aberto(cs, cab, cod_cli, ativo) # 0

Aplicado(cab, cs, logs, cache) ==
    [res |-> "ok", msg |-> "", cab |-> cab, cs |-> cs, logs |-> logs, cache |-> cache]

\* ENVIO: soft close, new item, log (lines 664-667, 673-684)
UnitEnvio(s, cache, c, cab, mov_hash, closed, e) ==
    IF e.ok
    THEN Aplicado(cab, e.cs,
                  Append(s.logs, LogEntry(cab, c.cod_cli, c.ativo, "ENVIO", c.data_mov, mov_hash, "")),
                  cache)
    ELSE Falha(s, cache, [cs |-> closed, logs |-> s.logs], "IntegrityError")

\* RETORNO: close the open item, log (lines 668-669, 673-684)
UnitRetorno(s, cache, c, cab, mov_hash, r) ==
    IF r.ok
    THEN Aplicado(cab, r.cs,
                  Append(s.logs, LogEntry(cab, c.cod_cli, c.ativo, "RETORNO", c.data_mov, mov_hash, "")),
                  cache)
    ELSE Falha(s, cache, Db(s), "ValueError: RETORNO sem item ATIVO")

\* lines 664-671
UnitAplicar(s, row, tp, c, cab, cache, mov_hash, rowd) ==
    IF tp = "ENVIO"
    THEN UnitEnvio(s, cache, c, cab, mov_hash,
                   soft_close_itens_por_ativo(s.cs, c.ativo, c.data_mov),
                   envio(soft_close_itens_por_ativo(s.cs, c.ativo, c.data_mov),
                         rowd, cab, c.data_mov, mov_hash, 0, 0))
    ELSE IF tp = "RETORNO"
    THEN UnitRetorno(s, cache, c, cab, mov_hash, retorno(s.cs, rowd, cab, c.data_mov, mov_hash))
    ELSE Falha(s, cache, Db(s), "ValueError: tp_transacao invalido")

\* lines 645-662: idempotency by hash, with reapplication
PrecisaReaplicar(cs, tp, cab, c) ==
    CASE tp = "ENVIO" -> ReaplicaEnvio(cs, cab, c.cod_cli, c.ativo)
      [] tp = "RETORNO" -> ReaplicaRetorno(cs, cab, c.cod_cli, c.ativo)
      [] OTHER -> FALSE

UnitComHash(s, row, tp, c, cab, cache, mov_hash) ==
    IF Dup(s.logs, mov_hash) /\ ~PrecisaReaplicar(s.cs, tp, cab, c)
    THEN [res |-> "dup", msg |-> "", cab |-> 0, cs |-> s.cs, logs |-> s.logs, cache |-> cache]
    ELSE UnitAplicar(s, row, tp, c, cab, cache, mov_hash, RowDict(c.cod_cli, c.ativo, row))

\* lines 641-643
UnitComCabecalho(s, row, tp, c, rc) ==
    IF rc.cab = 0 THEN Falha(s, rc.cache, Db(s), "ValueError: Cabecalho nao encontrado")
    ELSE UnitComHash(s, row, tp, c, rc.cab, rc.cache,
                     make_mov_hash(c.contrato_num, c.cod_cli, tp, c.ativo, c.data_mov, ""))

\* lines 635-641
UnitCanon(s, row, tp, c) ==
    IF c.data_mov = 0 THEN Falha(s, s.cache, Db(s), "ValueError: data_mov invalida")
    ELSE IF tp = "" \/ c.contrato_num = "" \/ c.ativo = ""
    THEN Falha(s, s.cache, Db(s), "ValueError: Campos obrigatorios")
    ELSE UnitComCabecalho(s, row, tp, c,
                          require_cabecalho(s.cache, row, c.contrato_num, CliOuNone(c.cod_cli)))

ProcUnitario(s, row) == UnitCanon(s, row, Tp(row), canon(row))

\* ------------------------------------------------------ one swap pair (OS)
\* body of "for (contrato_num, cod_cli, oskey), sides in trocas.items()" for a
\* complete pair (aplicar_lote, step 2).  k = [contrato_num, cod_cli, oskey,
\* ativo_envio, ativo_retorno, data_mov]; apl_ret / apl_env tell which halves
\* were written.
FalhaTroca(s, cache, parcial, msg) ==
    Falha(s, cache, parcial, msg) @@ [apl_ret |-> FALSE, apl_env |-> FALSE]

\* lines 707-717
ChaveTroca(contrato_num, cod_cli, oskey, envio_row, retorno_row) ==
    [ contrato_num |-> contrato_num, cod_cli |-> cod_cli, oskey |-> oskey,
      ativo_envio |-> IF Truthy(envio_row.ativo_resolvido) THEN envio_row.ativo_resolvido
                      ELSE RowGetStr(envio_row.ativo),
      ativo_retorno |-> IF Truthy(retorno_row.ativo_resolvido) THEN retorno_row.ativo_resolvido
                        ELSE RowGetStr(retorno_row.ativo),
      data_mov |-> parse_data_mov(IF retorno_row.data_mov # 0 THEN retorno_row.data_mov
                                  ELSE envio_row.data_mov),
      cli_ret |-> IF cod_cli # "" THEN cod_cli ELSE RowGetStr(retorno_row.cod_cli),
      cli_env |-> IF cod_cli # "" THEN cod_cli ELSE RowGetStr(envio_row.cod_cli) ]

HashRet(k) ==
    make_mov_hash(k.contrato_num, k.cod_cli, "TROCA-RETORNO", k.ativo_retorno, k.data_mov, k.oskey)

HashEnv(k) ==
    make_mov_hash(k.contrato_num, k.cod_cli, "TROCA-ENVIO", k.ativo_envio, k.data_mov, k.oskey)

\* lines 723-725: send date of the item about to return
DataEnvioHerdada(cs, cab, k) ==
    IF find_item_aberto(cs, cab, k.cli_ret, k.ativo_retorno) # 0
    THEN cs[find_item_aberto(cs, cab, k.cli_ret, k.ativo_retorno)].data_envio
    ELSE 0

\* lines 731-733
FazRetorno(s, cab, k) ==
    ~Dup(s.logs, HashRet(k)) \/ find_item_aberto(s.cs, cab, k.cli_ret, k.ativo_retorno) # 0

\* lines 748-750
FazEnvioMut(cs1, logs1, cab, k) == TRUE
FazEnvio(cs1, logs1, cab, k) ==
    ~Dup(logs1, HashEnv(k)) \/ ~(find_item_aberto(cs1, cab, k.cli_env, k.ativo_envio) # 0)

\* lines 751-775: ENVIO half, on the ledger and log left by the RETORNO half
TrocaEnvioFeito(s, cache, cab, k, logs1, apl_ret, closed, e) ==
    IF ~e.ok THEN FalhaTroca(s, cache, [cs |-> closed, logs |-> logs1], "IntegrityError")
    ELSE Aplicado(cab, e.cs,
                  Append(logs1, LogEntry(cab, k.cod_cli, k.ativo_envio, "TROCA-ENVIO",
                                         k.data_mov, HashEnv(k), k.oskey)),
                  cache)
         @@ [apl_ret |-> apl_ret, apl_env |-> TRUE]

TrocaEnvio(s, cache, cab, k, envio_row, herdada, cs1, logs1, apl_ret) ==
    IF FazEnvio(cs1, logs1, cab, k)
    THEN TrocaEnvioFeito(s, cache, cab, k, logs1, apl_ret,
                         soft_close_itens_por_ativo(cs1, k.ativo_envio, k.data_mov),
                         envio(soft_close_itens_por_ativo(cs1, k.ativo_envio, k.data_mov),
                               RowDict(k.cli_env, k.ativo_envio, envio_row), cab, k.data_mov,
                               HashEnv(k), herdada, k.data_mov))
    ELSE Aplicado(cab, cs1, logs1, cache) @@ [apl_ret |-> apl_ret, apl_env |-> FALSE]

\* lines 730-745: RETORNO half
TrocaRetornoFeito(s, cache, cab, k, envio_row, herdada, r) ==
    IF ~r.ok THEN FalhaTroca(s, cache, Db(s), "ValueError: RETORNO sem item ATIVO")
    ELSE TrocaEnvio(s, cache, cab, k, envio_row, herdada, r.cs,
                    Append(s.logs, LogEntry(cab, k.cod_cli, k.ativo_retorno, "TROCA-RETORNO",
                                            k.data_mov, HashRet(k), k.oskey)),
                    TRUE)

TrocaRetorno(s, cache, cab, k, envio_row, retorno_row, herdada) ==
    IF FazRetorno(s, cab, k)
    THEN TrocaRetornoFeito(s, cache, cab, k, envio_row, herdada,
                           retorno(s.cs, RowDict(k.cli_ret, k.ativo_retorno, retorno_row),
                                   cab, k.data_mov, HashRet(k)))
    ELSE TrocaEnvio(s, cache, cab, k, envio_row, herdada, s.cs, s.logs, FALSE)

\* lines 719-725
TrocaComCabecalho(s, k, envio_row, retorno_row, rc) ==
    IF rc.cab = 0 THEN FalhaTroca(s, rc.cache, Db(s), "ValueError: Cabecalho nao encontrado")
    ELSE TrocaRetorno(s, rc.cache, rc.cab, k, envio_row, retorno_row,
                      DataEnvioHerdada(s.cs, rc.cab, k))

\* lines 707-720
TrocaCanonMut(s, k, envio_row, retorno_row) ==
    TrocaComCabecalho(s, k, envio_row, retorno_row,
                      require_cabecalho(s.cache, envio_row, k.contrato_num,
                                        CliOuNone(k.cod_cli)))
TrocaCanon(s, k, envio_row, retorno_row) ==
    IF k.ativo_envio = "" \/ k.ativo_retorno = ""
    THEN FalhaTroca(s, s.cache, Db(s), "ValueError: TROCA: cada linha deve trazer o ativo")
    ELSE IF k.data_mov = 0 THEN FalhaTroca(s, s.cache, Db(s), "ValueError: data_mov invalida")
    ELSE TrocaComCabecalho(s, k, envio_row, retorno_row,
                           require_cabecalho(s.cache, envio_row, k.contrato_num,
                                             CliOuNone(k.cod_cli)))

ProcTroca(s, contrato_num, cod_cli, oskey, envio_row, retorno_row) ==
    TrocaCanon(s, ChaveTroca(contrato_num, cod_cli, oskey, envio_row, retorno_row),
               envio_row, retorno_row)

\* ------------------------------------------------------------ aplicar_lote
\* First loop: separates swap rows (paired by (contrato, cliente, OS), in order
\* of first appearance of the key) from the unit rows.
\* acc = [msgs, erros, trocas, unitarios, passos]
PosChave(trocas, key) ==
    LET S == { k \in DOMAIN trocas : trocas[k].key = key }
    IN  IF S = {} THEN 0 ELSE MinId(S)

PreErroMut(acc, i, msg) == acc
PreErro(acc, i, msg) ==
    [acc EXCEPT !.msgs[i] = msg, !.erros = @ + 1,
                !.passos = Append(@, [tipo |-> "pre", linhas |-> <<i>>, res |-> "erro"])]

RECURSIVE Separar(_, _, _)
Separar(rows, i, acc) ==
    IF i > Len(rows) THEN acc
    ELSE
    LET row == rows[i]
        tp == Tp(row)
        subtipo == TipoTroca(row)
        contrato_num == RowGetStr(row.contrato_num)
        cod_cli == RowGetStr(row.cod_cli)
        oskey == OsKey(row)
        key == << contrato_num, cod_cli, oskey >>
        pos == PosChave(acc.trocas, key)
        withKey == IF pos # 0 THEN acc.trocas
                   ELSE Append(acc.trocas, [key |-> key, ENVIO |-> 0, RETORNO |-> 0])
        p == IF pos # 0 THEN pos ELSE Len(withKey)
    IN
    IF tp # "TROCA"
    THEN Separar(rows, i + 1, [acc EXCEPT !.unitarios = Append(@, i)])
    ELSE IF subtipo \notin {"ENVIO", "RETORNO"}
    THEN Separar(rows, i + 1, PreErro(acc, i, "TROCA: Tipo de Movimento Troca invalido"))
    ELSE IF contrato_num = "" \/ oskey = ""
    THEN Separar(rows, i + 1, PreErro(acc, i, "TROCA: faltam contrato/OS"))
    ELSE IF withKey[p][subtipo] # 0
    THEN Separar(rows, i + 1,
                 PreErro([acc EXCEPT !.trocas = withKey], i, "TROCA: linha duplicada"))
    ELSE Separar(rows, i + 1,
                 [acc EXCEPT !.trocas = [withKey EXCEPT ![p][subtipo] = i]])

\* st = [cs, logs, cache, msgs, ok, erros, afetados, passos]
Passo(tipo, linhas, st, r) ==
    [ tipo |-> tipo, linhas |-> linhas, res |-> r.res, msg |-> r.msg,
      antes |-> [cs |-> st.cs, logs |-> st.logs],
      depois |-> [cs |-> r.cs, logs |-> r.logs],
      cache |-> r.cache ]

\* the session a savepoint block works on
Sess(st) == [cs |-> st.cs, logs |-> st.logs, cache |-> st.cache]

\* lines 685-688: counters and erro_msg after the block of row i ended with r
AposUnit(st, i, r) ==
    [ st EXCEPT
        !.cs = r.cs, !.logs = r.logs, !.cache = r.cache,
        !.msgs[i] = IF r.res = "ok" THEN @ ELSE r.msg,
        !.ok = IF r.res = "erro" THEN @ ELSE @ + 1,
        !.erros = IF r.res = "erro" THEN @ + 1 ELSE @,
        !.afetados = IF r.res = "ok" THEN @ \cup {r.cab} ELSE @,
        !.passos = Append(@, Passo("unit", <<i>>, st, r)) ]

\* 1) unitarios
RECURSIVE Unitarios(_, _, _, _)
Unitarios(rows, unitarios, k, st) ==
    IF k > Len(unitarios) THEN st
    ELSE Unitarios(rows, unitarios, k + 1,
                   AposUnit(st, unitarios[k], ProcUnitario(Sess(st), rows[unitarios[k]])))

\* lines 694-701: a group with one side only is reported, nothing is applied
TrocaIncompletaMut(st, i, msg) == st
TrocaIncompleta(st, i, msg) ==
    [ st EXCEPT !.msgs[i] = msg,
                !.erros = @ + 1,
                !.passos = Append(@, [tipo |-> "inc", linhas |-> <<i>>, res |-> "erro"]) ]

\* lines 776-781: counters and erro_msg after the block of the pair ended with r
AposTroca(st, ie, ir, r) ==
    [ st EXCEPT
        !.cs = r.cs, !.logs = r.logs, !.cache = r.cache,
        !.msgs = IF r.res = "erro"
                 THEN [@ EXCEPT ![ie] = r.msg, ![ir] = r.msg] ELSE @,
        !.ok = IF r.res = "erro" THEN @ ELSE @ + 2,
        !.erros = IF r.res = "erro" THEN @ + 1 ELSE @,
        !.afetados = IF r.res = "ok" THEN @ \cup {r.cab} ELSE @,
        !.passos = Append(@, Passo("par", <<ie, ir>>, st, r)
                             @@ [apl_ret |-> r.apl_ret, apl_env |-> r.apl_env]) ]

\* one group of the swap dictionary: t = [key, ENVIO, RETORNO]
TrocaGrupo(rows, t, st) ==
    IF t.ENVIO = 0 /\ t.RETORNO = 0 THEN st
    ELSE IF t.ENVIO = 0 THEN TrocaIncompleta(st, t.RETORNO, "TROCA: falta ENVIO")
    ELSE IF t.RETORNO = 0 THEN TrocaIncompleta(st, t.ENVIO, "TROCA: falta RETORNO")
    ELSE AposTroca(st, t.ENVIO, t.RETORNO,
                   ProcTroca(Sess(st), t.key[1], t.key[2], t.key[3],
                             rows[t.ENVIO], rows[t.RETORNO]))

\* 2) trocas
RECURSIVE Trocas(_, _, _, _)
Trocas(rows, trocas, k, st) ==
    IF k > Len(trocas) THEN st
    ELSE Trocas(rows, trocas, k + 1, TrocaGrupo(rows, trocas[k], st))

\* line 783
StatusFinalMut(erros) == "PROCESSADO"
StatusFinal(erros) == IF erros # 0 THEN "PROCESSADO_COM_ERROS" ELSE "PROCESSADO"

\* lines 588-598: counters and collections before the first row
EstadoInicial(cs, logs, cache, acc) ==
    [ cs |-> cs, logs |-> logs, cache |-> cache, msgs |-> acc.msgs,
      ok |-> 0, erros |-> acc.erros, afetados |-> {}, passos |-> acc.passos ]

\* lines 783-793: status of the batch and the summary returned
Resultado(lt, st) ==
    [ cs |-> st.cs, logs |-> st.logs, cache |-> st.cache, msgs |-> st.msgs,
      status |-> StatusFinal(st.erros),
      passos |-> st.passos,
      resumo |-> [ processados |-> st.ok + st.erros, ok |-> st.ok,
                   erros |-> st.erros, contratos_afetados |-> st.afetados,
                   erros_detalhes |->
                       SelectSeq([i \in 1..Len(lt.rows) |-> i],
                                 LAMBDA i : st.msgs[i] # "") ] ]

\* the two loops over the rows separated into acc
AplicarSeparadoMut(cs, logs, cache, lt, acc) ==
    Resultado(lt, Unitarios(lt.rows, acc.unitarios, 1,
                            Trocas(lt.rows, acc.trocas, 1,
                                   EstadoInicial(cs, logs, cache, acc))))
AplicarSeparado(cs, logs, cache, lt, acc) ==
    Resultado(lt, Trocas(lt.rows, acc.trocas, 1,
                         Unitarios(lt.rows, acc.unitarios, 1,
                                   EstadoInicial(cs, logs, cache, acc))))

\* aplicar_lote on an existing batch: final session, row messages, status, summary
Aplicar(cs, logs, cache, lt) ==
    AplicarSeparado(cs, logs, cache, lt,
                    Separar(lt.rows, 1,
                            [ msgs |-> lt.msgs, erros |-> 0, trocas |-> <<>>,
                              unitarios |-> <<>>, passos |-> <<>> ]))


\* ------------------------------------------------------------------- state
VARIABLES
    contratos,  \* table contratos: sequence of ledger items, position = id
    logs,       \* table contratos_logs: sequence of audit entries
    cache,      \* _CAB_ID_CACHE
    lote,       \* the staged batch (rows, erro_msg per row, status) or NoLote
    runs,       \* number of aplicar_lote calls so far
    ult,        \* what the last aplicar_lote call saw and returned
    resol,      \* the last header resolution: key, header found, header in storage
    tx          \* the open transactions of two concurrent commits

vars == << contratos, logs, cabs, cache, lote, runs, ult, resol, tx >>

NoLote == [rows |-> <<>>, msgs |-> <<>>, status |-> "NENHUM"]
NoRun == [n |-> 0]
NoResol == [chave |-> << >>, cab |-> 0, direto |-> 0]
NoTx == << >>
HashVazio == << "", "", "", "", "", 0 >>

\* ------------------------------------------------------------ input rows
RowBase ==
    [ tp_transacao |-> "ENVIO", tipo_troca |-> Ausente, os |-> Ausente,
      contrato_num |-> "C1", cod_cli |-> "1", ativo |-> "X", ativo_norm |-> Ausente,
      ativo_resolvido |-> Ausente, data_mov |-> 1, campos_item |-> TRUE,
      cabecalho_id_resolvido |-> 0 ]

Unit(tp, ativo, d, campos) ==
    [RowBase EXCEPT !.tp_transacao = tp, !.ativo = ativo, !.data_mov = d,
                    !.campos_item = campos]

Meia(papel, ativo, d, campos) ==
    [RowBase EXCEPT !.tp_transacao = "TROCA", !.tipo_troca = papel, !.os = "OS1",
                    !.ativo = ativo, !.data_mov = d, !.campos_item = campos]

\* rows of batches made of ENVIO / RETORNO rows: a clean asset id, an asset id
\* with surrounding blanks, a blank asset id, a row without the item columns
RowsUnit ==
    { Unit(tp, a, d, TRUE) : tp \in {"ENVIO", "RETORNO"}, a \in {"X", " X"}, d \in Datas }
    \cup { Unit("ENVIO", "", 1, TRUE), Unit("RETORNO", "", 1, TRUE),
           Unit("ENVIO", "X", 1, FALSE) }

\* rows of batches with a swap on day 2 (old asset X, new asset Y); the last two
\* are a swap row without work order and a swap row without a valid role
RowsTroca ==
    { Meia("RETORNO", "X", 2, TRUE), Meia("RETORNO", " X", 2, TRUE),
      Meia("RETORNO", "", 2, TRUE),
      Meia("ENVIO", "Y", 2, TRUE), Meia("ENVIO", "", 2, TRUE),
      Meia("ENVIO", "Y", 2, FALSE),
      Unit("ENVIO", "X", 1, TRUE), Unit("ENVIO", " X", 1, TRUE),
      Unit("ENVIO", "Y", 1, TRUE), Unit("RETORNO", "Y", 2, TRUE),
      [Meia("ENVIO", "Y", 2, TRUE) EXCEPT !.os = Ausente],
      [Meia("RETORNO", "X", 2, TRUE) EXCEPT !.tipo_troca = "OUTRO"] }

SeqsAte(S, n) == UNION { [1..k -> S] : k \in 1..n }

Lotes == SeqsAte(RowsUnit, MaxRows) \cup SeqsAte(RowsTroca, MaxRows)

\* ledgers the engine may start from (at most one ATIVO item per asset)
ItemInicial(id, cab, cli, ativo, d) ==
    [ id |-> id, cabecalho_id |-> cab, ativo |-> ativo, cod_cli |-> cli,
      data_envio |-> d, data_troca |-> 0, data_retorno |-> 0,
      tp_transacao |-> "ENVIO", status |-> ATIVO, mov_hash |-> HashVazio ]

LedgersIniciais ==
    { <<>>, << ItemInicial(1, 1, "1", "X", 1) >> }

\* --------------------------------------------------------------- actions
Init ==
    /\ contratos \in LedgersIniciais
    /\ logs = <<>>
    /\ cabs = Cabecalhos
    /\ cache = << >>
    /\ lote = NoLote
    /\ runs = 0
    /\ ult = NoRun
    /\ resol = NoResol
    /\ tx = NoTx

\* the staging step stores a batch in PREVIEW
CriarLote ==
    /\ lote = NoLote
    /\ \E rows \in Lotes :
         lote' = [rows |-> rows, msgs |-> [i \in 1..Len(rows) |-> ""], status |-> "PREVIEW"]
    /\ UNCHANGED << contratos, logs, cabs, cache, runs, ult, resol, tx >>

\* lines 584-586: sess.get(MovimentacaoLote, lote_id)
LoteExisteMut(l) == TRUE
LoteExiste(l) == l # NoLote

\* aplicar_lote(sess, lote_id) inside the caller's "with db.begin()"
AplicarLote ==
    /\ LoteExiste(lote)
    /\ runs < MaxRuns
    /\ \E r \in {Aplicar(contratos, logs, cache, lote)} :
         /\ contratos' = r.cs
         /\ logs' = r.logs
         /\ cache' = r.cache
         /\ lote' = [lote EXCEPT !.msgs = r.msgs, !.status = r.status]
         /\ ult' = [ n |-> runs + 1,
                     antes |-> [cs |-> contratos, logs |-> logs, cache |-> cache, cabs |-> cabs],
                     status_antes |-> lote.status,
                     passos |-> r.passos, resumo |-> r.resumo ]
    /\ runs' = runs + 1
    /\ UNCHANGED << cabs, resol, tx >>

Next == CriarLote \/ AplicarLote

Spec == Init /\ [][Next]_vars


\* ------------------------------------------- calls that end without a summary
\* rows of the batches of this part: a valid SEND and RETURN, a SEND without
\* asset id, a SEND without the item columns, a SEND on a contract without
\* header, the two halves of a swap
RowsCurto ==
    { Unit("ENVIO", "X", 1, TRUE), Unit("RETORNO", "X", 2, TRUE),
      Unit("ENVIO", "", 1, TRUE), Unit("ENVIO", "X", 1, FALSE),
      [Unit("ENVIO", "X", 1, TRUE) EXCEPT !.contrato_num = "C9"],
      Meia("RETORNO", "X", 2, TRUE), Meia("ENVIO", "Y", 2, TRUE) }

LotesCurtos == SeqsAte(RowsCurto, MaxRows)

CriarLoteCurto ==
    /\ lote = NoLote
    /\ \E rows \in LotesCurtos :
         lote' = [rows |-> rows, msgs |-> [i \in 1..Len(rows) |-> ""], status |-> "PREVIEW"]
    /\ UNCHANGED << contratos, logs, cabs, cache, runs, ult, resol, tx >>

\* aplicar_lote with a lote_id that is not in movimentacao_lotes: ValueError
AplicarLoteInexistente ==
    /\ ~LoteExiste(lote)
    /\ runs < MaxRuns
    /\ ult' = [ n |-> 0, erro |-> "ValueError: Lote nao encontrado",
                antes |-> [cs |-> contratos, logs |-> logs, cache |-> cache],
                lote_antes |-> lote ]
    /\ runs' = runs + 1
    /\ UNCHANGED << contratos, logs, cabs, cache, lote, resol, tx >>

\* commit_lote: "with db.begin(): aplicar_lote(...)" commits when the block is
\* left; a call that never leaves it commits nothing of what it wrote
AbortarMut(antes, parcial) == parcial
Abortar(antes, parcial) == antes

\* the call is terminated from outside after savepoint step k of the run; the
\* header cache is kept (the process lives on) or lost with the process
InterromperLote ==
    /\ LoteExiste(lote)
    /\ runs < MaxRuns
    /\ \E r \in {Aplicar(contratos, logs, cache, lote)} :
         \E k \in { j \in DOMAIN r.passos : r.passos[j].tipo \in {"unit", "par"} } :
           \E morto \in BOOLEAN :
             /\ contratos' = Abortar(contratos, r.passos[k].depois.cs)
             /\ logs' = Abortar(logs, r.passos[k].depois.logs)
             /\ cache' = IF morto THEN << >> ELSE r.passos[k].cache
             /\ ult' = [ n |-> 0, interrompido |-> TRUE, passo |-> r.passos[k],
                         antes |-> [cs |-> contratos, logs |-> logs, cache |-> cache],
                         lote_antes |-> lote ]
    /\ runs' = runs + 1
    /\ UNCHANGED << cabs, lote, resol, tx >>

NextChamadas == CriarLoteCurto \/ AplicarLoteInexistente \/ InterromperLote \/ AplicarLote

SpecChamadas == Init /\ [][NextChamadas]_vars


\* ------------------------------- two commit calls in separate transactions
\* Each transaction applies a batch with one SEND row of asset "X" (contract
\* "C1", client "1") under READ COMMITTED: a statement reads the rows committed
\* when it starts plus the transaction's own writes; an UPDATE waits for the
\* rows it matched that another open transaction has updated; the writes of a
\* transaction reach contratos / contrato_logs when "with db.begin()" is left.
\* tx[i] = [pc, data, snap]; snap = ids matched by the UPDATE of the soft close
TxIds == 1..2

TxRow(d) == Unit("ENVIO", "X", d, TRUE)

TxCab(d) == LookupCab(canon(TxRow(d)).contrato_num, canon(TxRow(d)).cod_cli)

\* line 643: mov_hash of the row
TxHash(d) ==
    make_mov_hash(canon(TxRow(d)).contrato_num, canon(TxRow(d)).cod_cli, Tp(TxRow(d)),
                  canon(TxRow(d)).ativo, canon(TxRow(d)).data_mov, "")

TxTrava(t) == IF t.pc \in {"fechou", "inseriu"} THEN t.snap ELSE {}

\* begin of the two transactions (two POST /commit/{lote_id} being served)
TxIniciar ==
    /\ tx = NoTx
    /\ lote = NoLote
    /\ runs = 0
    /\ \E d1 \in Datas, d2 \in Datas :
         tx' = << [pc |-> "ini", data |-> d1, snap |-> {}],
                  [pc |-> "ini", data |-> d2, snap |-> {}] >>
    /\ UNCHANGED << contratos, logs, cabs, cache, lote, runs, ult, resol >>

\* select(ContratoLog.id).where(mov_hash == ...) and the replay test
TxDupCheck(i) ==
    /\ tx # NoTx
    /\ tx[i].pc = "ini"
    /\ tx' = [tx EXCEPT ![i].pc =
                IF Dup(logs, TxHash(tx[i].data))
                   /\ ~ReaplicaEnvio(contratos, TxCab(tx[i].data), "1", "X")
                THEN "fim" ELSE "checou"]
    /\ UNCHANGED << contratos, logs, cabs, cache, lote, runs, ult, resol >>

\* _soft_close_itens_por_ativo: the UPDATE starts and matches committed rows
TxUpdateInicio(i) ==
    /\ tx # NoTx
    /\ tx[i].pc = "checou"
    /\ tx' = [tx EXCEPT ![i].pc = "update",
                        ![i].snap = { k \in DOMAIN contratos : contratos[k].ativo = "X" }]
    /\ UNCHANGED << contratos, logs, cabs, cache, lote, runs, ult, resol >>

\* the UPDATE gets its row locks and completes
TxUpdateFim(i) ==
    /\ tx # NoTx
    /\ tx[i].pc = "update"
    /\ \A j \in TxIds \ {i} : TxTrava(tx[j]) \cap tx[i].snap = {}
    /\ tx' = [tx EXCEPT ![i].pc = "fechou"]
    /\ UNCHANGED << contratos, logs, cabs, cache, lote, runs, ult, resol >>

\* _envio, sess.add(ContratoLog(...)), sess.flush(): uncommitted INSERTs
TxEnvio(i) ==
    /\ tx # NoTx
    /\ tx[i].pc = "fechou"
    /\ tx' = [tx EXCEPT ![i].pc = "inseriu"]
    /\ UNCHANGED << contratos, logs, cabs, cache, lote, runs, ult, resol >>

\* rows of cs with the soft close applied to the ids in snap only
TxFechados(cs, snap, d) ==
    [ k \in DOMAIN cs |->
        IF k \in snap THEN soft_close_itens_por_ativo(cs, "X", d)[k] ELSE cs[k] ]

\* leaving "with db.begin()": the writes of the transaction become visible
TxCommit(i) ==
    /\ tx # NoTx
    /\ tx[i].pc = "inseriu"
    /\ contratos' = envio(TxFechados(contratos, tx[i].snap, tx[i].data),
                          RowDict("1", "X", TxRow(tx[i].data)), TxCab(tx[i].data),
                          tx[i].data, TxHash(tx[i].data), 0, 0).cs
    /\ logs' = Append(logs, LogEntry(TxCab(tx[i].data), "1", "X", "ENVIO", tx[i].data,
                                     TxHash(tx[i].data), ""))
    /\ tx' = [tx EXCEPT ![i].pc = "fim"]
    /\ UNCHANGED << cabs, cache, lote, runs, ult, resol >>

NextConc ==
    \/ TxIniciar
    \/ \E i \in TxIds : TxDupCheck(i)
    \/ \E i \in TxIds : TxUpdateInicio(i)
    \/ \E i \in TxIds : TxUpdateFim(i)
    \/ \E i \in TxIds : TxEnvio(i)
    \/ \E i \in TxIds : TxCommit(i)

SpecConc == Init /\ [][NextConc]_vars

\* --------------------------------- header registrations and resolutions
\* contract numbers and client codes of the registrations and resolutions:
\* "C1" has a header of client "1" from the start, "C3" has none
CabContratos == {"C1", "C3"}

CabClientes == {Ausente, "2"}

\* db.add(ContratoCabecalho(...)); db.commit(): the new row gets the next id;
\* cod_cli is NULL or the client code the header is given (nullable column)
RegistrarCab ==
    /\ Cardinality(cabs) < MaxCabs
    /\ \E n \in CabContratos, c \in CabClientes :
         cabs' = cabs \cup { [id |-> Cardinality(cabs) + 1, contrato_num |-> n, cod_cli |-> c] }
    /\ UNCHANGED << contratos, logs, cache, lote, runs, ult, resol, tx >>

\* _find_cabecalho(sess, contrato_num, cod_cli); resol keeps what it returned
\* and what the two SELECTs return on the storage of that moment
ResolverCab ==
    /\ \E n \in CabContratos, c \in CabClientes :
         \E r \in {find_cabecalho(cache, n, c)} :
            /\ cache' = r.cache
            /\ resol' = [chave |-> << n, c >>, cab |-> r.cab, direto |-> LookupCab(n, c)]
    /\ UNCHANGED << contratos, logs, cabs, lote, runs, ult, tx >>

NextCab == RegistrarCab \/ ResolverCab

SpecCab == Init /\ [][NextCab]_vars

\* ------------------------- batches run between header registrations
\* SEND rows of asset "X" that differ in the keys the header is resolved from:
\* contract number, client code and the header id stored by the preview
RowCab(contrato_num, cod_cli, cid) ==
    [Unit("ENVIO", "X", 1, TRUE) EXCEPT !.contrato_num = contrato_num, !.cod_cli = cod_cli,
                                        !.cabecalho_id_resolvido = cid]

RowsCab ==
    { RowCab("C1", "1", 0), RowCab("C1", "2", 0), RowCab("C3", "2", 0),
      RowCab("C1", "1", 2), RowCab("C3", "1", 2), RowCab("C1", "1", 3) }

LotesCab == SeqsAte(RowsCab, MaxRows)

CriarLoteCab ==
    /\ lote = NoLote
    /\ \E rows \in LotesCab :
         lote' = [rows |-> rows, msgs |-> [i \in 1..Len(rows) |-> ""], status |-> "PREVIEW"]
    /\ UNCHANGED << contratos, logs, cabs, cache, runs, ult, resol, tx >>

NextResol == CriarLoteCab \/ RegistrarCab \/ AplicarLote

SpecResol == Init /\ [][NextResol]_vars

\* ------------------------------------------- the finder on arbitrary ledgers
\* items of asset "X" under header 1 or 2, client "1" or "2", sent on day 1 or
\* 2, ATIVO or RETORNADO, and one ATIVO item of asset "Y"
Devolvido(it) ==
    [it EXCEPT !.status = RETORNADO, !.data_retorno = it.data_envio, !.tp_transacao = "RETORNO"]

ItensFinder ==
    { ItemInicial(0, cab, cli, "X", d) : cab \in {1, 2}, cli \in {"1", "2"}, d \in {1, 2} }
    \cup { Devolvido(ItemInicial(0, cab, cli, "X", d)) :
             cab \in {1, 2}, cli \in {"1", "2"}, d \in {1, 2} }
    \cup { ItemInicial(0, 1, "1", "Y", 1) }

LedgersFinder ==
    UNION { { [i \in 1..n |-> [f[i] EXCEPT !.id = i]] : f \in [1..n -> ItensFinder] } :
            n \in 0..MaxItens }

InitFinder ==
    /\ contratos \in LedgersFinder
    /\ logs = <<>>
    /\ cabs = Cabecalhos
    /\ cache = << >>
    /\ lote = NoLote
    /\ runs = 0
    /\ ult = NoRun
    /\ resol = NoResol
    /\ tx = NoTx

\* _find_item_aberto(sess, cab_id, cod_cli, ativo); ult keeps arguments and result
Procurar ==
    /\ \E cab \in {1, 2}, cli \in {Ausente, "1", "2"}, ativo \in {"X", "Y"} :
         ult' = [ n |-> 0, cab_id |-> cab, cod_cli |-> cli, ativo |-> ativo,
                  achado |-> find_item_aberto(contratos, cab, cli, ativo) ]
    /\ UNCHANGED << contratos, logs, cabs, cache, lote, runs, resol, tx >>

NextFinder == Procurar

SpecFinder == InitFinder /\ [][NextFinder]_vars

\* ------------------------------ SEND rows on ledgers with several open items
\* ledgers of up to MaxItens items: asset "X" ATIVO under header 1 or under
\* header 2, asset "X" RETORNADO, asset "Y" ATIVO
ItensEnvio ==
    { ItemInicial(0, 1, "1", "X", 1), ItemInicial(0, 2, "2", "X", 1),
      Devolvido(ItemInicial(0, 1, "1", "X", 1)), ItemInicial(0, 1, "1", "Y", 1) }

LedgersEnvio ==
    UNION { { [i \in 1..n |-> [f[i] EXCEPT !.id = i]] : f \in [1..n -> ItensEnvio] } :
            n \in 0..MaxItens }

InitEnvio ==
    /\ contratos \in LedgersEnvio
    /\ logs = <<>>
    /\ cabs = Cabecalhos
    /\ cache = << >>
    /\ lote = NoLote
    /\ runs = 0
    /\ ult = NoRun
    /\ resol = NoResol
    /\ tx = NoTx

\* SEND rows of asset "X" (clean and with a leading blank) and "Y", a SEND
\* without the item columns, a RETURN of "X"
RowsEnvio ==
    { Unit("ENVIO", "X", 2, TRUE), Unit("ENVIO", " X", 2, TRUE), Unit("ENVIO", "X", 3, TRUE),
      Unit("ENVIO", "Y", 2, TRUE), Unit("ENVIO", "X", 2, FALSE), Unit("RETORNO", "X", 2, TRUE) }

LotesEnvio == SeqsAte(RowsEnvio, MaxRows)

CriarLoteEnvio ==
    /\ lote = NoLote
    /\ \E rows \in LotesEnvio :
         lote' = [rows |-> rows, msgs |-> [i \in 1..Len(rows) |-> ""], status |-> "PREVIEW"]
    /\ UNCHANGED << contratos, logs, cabs, cache, runs, ult, resol, tx >>

NextEnvio == CriarLoteEnvio \/ AplicarLote

SpecEnvio == InitEnvio /\ [][NextEnvio]_vars

\* ------------------------------------------------------- the preview step
\* routers/importar_movimentacao.py: what preview_lote computes for row i of
\* the uploaded rows, against the audit log it reads.
\* _get_troca_role
PreviewPapel(row) ==
    CASE Strip(row.tipo_troca) \in {"ENVIO", "E", "NOVO", "NOVA"} -> "ENVIO"
      [] Strip(row.tipo_troca) \in {"RETORNO", "R", "DEVOLUCAO", "ANTIGO", "OLD"} -> "RETORNO"
      [] OTHER -> ""

\* _troca_pair_key
PreviewChave(row) == << Strip(row.contrato_num), Strip(row.cod_cli), Strip(row.os) >>

\* _prepair_trocas: the row that holds role papel in the group of row i (the
\* last one written wins), 0 when the group has none
PreviewLado(rows, i, papel) ==
    IF { j \in DOMAIN rows : /\ norm_tp(Strip(rows[j].tp_transacao)) = "TROCA"
                             /\ PreviewPapel(rows[j]) = papel
                             /\ PreviewChave(rows[j]) = PreviewChave(rows[i]) } = {}
    THEN 0
    ELSE CHOOSE j \in DOMAIN rows :
            /\ norm_tp(Strip(rows[j].tp_transacao)) = "TROCA"
            /\ PreviewPapel(rows[j]) = papel
            /\ PreviewChave(rows[j]) = PreviewChave(rows[i])
            /\ \A m \in DOMAIN rows :
                 (/\ norm_tp(Strip(rows[m].tp_transacao)) = "TROCA"
                  /\ PreviewPapel(rows[m]) = papel
                  /\ PreviewChave(rows[m]) = PreviewChave(rows[i])) => m <= j

\* the errors common to every kind of row (lines 141-161)
PreviewErroBase(row) ==
    \/ norm_tp(Strip(row.tp_transacao)) \notin {"ENVIO", "RETORNO", "TROCA"}
    \/ Strip(row.contrato_num) = ""
    \/ Strip(row.cod_cli) = ""

\* _validar_linha_preview, swap row of a complete pair: hash and duplicate flag
PreviewDupTroca(logs_lidos, rows, i, ie, ir) ==
    /\ ~PreviewErroBase(rows[i])
    /\ Strip(rows[i].os) # "" /\ PreviewPapel(rows[i]) # ""
    /\ ie # 0 /\ ir # 0
    /\ Strip(rows[ie].ativo) # "" /\ Strip(rows[ir].ativo) # ""
    /\ parse_data_mov(rows[i].data_mov) # 0
    /\ Dup(logs_lidos, make_mov_hash(Strip(rows[i].contrato_num), Strip(rows[i].cod_cli),
                                     "TROCA", Strip(rows[ir].ativo),
                                     parse_data_mov(rows[i].data_mov), Strip(rows[ie].ativo)))

\* _validar_linha_preview, ENVIO / RETORNO row: hash and duplicate flag
PreviewDupUnit(logs_lidos, row) ==
    /\ ~PreviewErroBase(row)
    /\ Strip(row.ativo) # ""
    /\ parse_data_mov(row.data_mov) # 0
    /\ Dup(logs_lidos, make_mov_hash(Strip(row.contrato_num), Strip(row.cod_cli),
                                     norm_tp(Strip(row.tp_transacao)), Strip(row.ativo),
                                     parse_data_mov(row.data_mov), ""))

\* row i gets the warning "Duplicado ... sera IGNORADA no commit"
PreviewDuplicado(logs_lidos, rows, i) ==
    IF norm_tp(Strip(rows[i].tp_transacao)) = "TROCA"
    THEN PreviewDupTroca(logs_lidos, rows, i,
                         PreviewLado(rows, i, "ENVIO"), PreviewLado(rows, i, "RETORNO"))
    ELSE PreviewDupUnit(logs_lidos, rows[i])

\* ------------------------------------------------------------- properties
Rodou == ult.n > 0

\* steps of the last run that ran inside a savepoint
PassosSp == IF Rodou THEN { k \in DOMAIN ult.passos : ult.passos[k].tipo \in {"unit", "par"} }
            ELSE {}

AtivosDe(cs, a) == { i \in DOMAIN cs : cs[i].ativo = a /\ cs[i].status = ATIVO }

\* C1: in every ledger reached from a ledger with at most one ATIVO item per
\* asset id, every asset id has at most one ledger item with status ATIVO.
C1_UmAtivoPorAtivo ==
    \A i \in DOMAIN contratos : Cardinality(AtivosDe(contratos, contratos[i].ativo)) <= 1


\* rows whose asset id arrives in canonical form (no surrounding blanks)
IdsCanonicos(rows) == \A i \in DOMAIN rows : rows[i].ativo = Strip(rows[i].ativo)

\* C2: running aplicar_lote a second time on the same batch leaves the ledger
\* exactly as the first run left it (the second run performs no ledger write).
\* Stated for batches whose asset ids arrive in canonical form.
C2_ReplayNaoEscreve ==
    (ult.n = 2 /\ IdsCanonicos(lote.rows)) => contratos = ult.antes.cs

\* C6: after the batch SEND(X, d1), SEND(X, d2), RETURN(X, d3), d1 < d2 < d3, on
\* header 1 with no prior item for X, exactly two items exist for X under that
\* header, exactly one ATIVO and exactly one RETORNADO.
Cenario6 ==
    /\ ult.n = 1
    /\ \A i \in DOMAIN ult.antes.cs : ult.antes.cs[i].ativo # "X"
    /\ \E d1, d2, d3 \in Datas :
         /\ d1 < d2 /\ d2 < d3
         /\ lote.rows = << Unit("ENVIO", "X", d1, TRUE), Unit("ENVIO", "X", d2, TRUE),
                           Unit("RETORNO", "X", d3, TRUE) >>

C6_UmAtivoUmRetornado ==
    Cenario6 =>
        LET S == { i \in DOMAIN contratos :
                     contratos[i].ativo = "X" /\ contratos[i].cabecalho_id = 1 }
        IN  /\ Cardinality(S) = 2
            /\ Cardinality({ i \in S : contratos[i].status = ATIVO }) = 1
            /\ Cardinality({ i \in S : contratos[i].status = RETORNADO }) = 1

\* swap-pair steps of the last run, and the key of the pair of a step
PassosPar == { k \in PassosSp : ult.passos[k].tipo = "par" }

ChaveDoPasso(p) ==
    ChaveTroca(RowGetStr(lote.rows[p.linhas[1]].contrato_num),
               RowGetStr(lote.rows[p.linhas[1]].cod_cli),
               OsKey(lote.rows[p.linhas[1]]),
               lote.rows[p.linhas[1]], lote.rows[p.linhas[2]])

PrimeiraVez(p) ==
    /\ ~Dup(p.antes.logs, HashRet(ChaveDoPasso(p)))
    /\ ~Dup(p.antes.logs, HashEnv(ChaveDoPasso(p)))

\* both halves written: X's ATIVO item is now RETORNADO, one new ATIVO item for
\* Y, and the two entries TROCA-RETORNO, TROCA-ENVIO appended to the log
TrocaCompleta(p, ch) ==
    /\ Len(p.depois.cs) = Len(p.antes.cs) + 1
    /\ \E i \in DOMAIN p.antes.cs :
         /\ Strip(p.antes.cs[i].ativo) = ch.ativo_retorno
         /\ p.antes.cs[i].status = ATIVO
         /\ p.depois.cs[i].status = RETORNADO
    /\ p.depois.cs[Len(p.depois.cs)].status = ATIVO
    /\ Strip(p.depois.cs[Len(p.depois.cs)].ativo) = ch.ativo_envio
    /\ Len(p.depois.logs) = Len(p.antes.logs) + 2
    /\ SubSeq(p.depois.logs, 1, Len(p.antes.logs)) = p.antes.logs
    /\ p.depois.logs[Len(p.antes.logs) + 1].tp_transacao = "TROCA-RETORNO"
    /\ p.depois.logs[Len(p.antes.logs) + 2].tp_transacao = "TROCA-ENVIO"

\* C3: a complete swap pair (RETURN X, SEND Y) applied for the first time is
\* all-or-nothing: either X is RETORNADO, Y has a new ATIVO item and the log has
\* the two new entries TROCA-RETORNO and TROCA-ENVIO, or the pair failed and the
\* ledger and the log are exactly as before the pair.
C3_TrocaTudoOuNada ==
    \A k \in PassosPar :
        PrimeiraVez(ult.passos[k]) =>
            \/ ult.passos[k].res = "ok"
               /\ TrocaCompleta(ult.passos[k], ChaveDoPasso(ult.passos[k]))
            \/ ult.passos[k].res = "erro"
               /\ ult.passos[k].depois = ult.passos[k].antes

\* the SEND-half failed after the RETURN-half had closed X's item
C3_Witness ==
    \E k \in PassosPar :
        /\ PrimeiraVez(ult.passos[k])
        /\ ult.passos[k].res = "erro"
        /\ ult.passos[k].msg = "IntegrityError"
        /\ \E i \in DOMAIN ult.passos[k].antes.cs :
             /\ ult.passos[k].antes.cs[i].ativo = ChaveDoPasso(ult.passos[k]).ativo_retorno
             /\ ult.passos[k].antes.cs[i].status = ATIVO

\* ledger and log seen by savepoint step k when it starts
AntesDe(k) ==
    IF { j \in PassosSp : j < k } = {} THEN [cs |-> ult.antes.cs, logs |-> ult.antes.logs]
    ELSE ult.passos[CHOOSE j \in PassosSp : j < k /\ \A m \in PassosSp : m < k => m <= j].depois

\* C5: a row or pair that fails inside its savepoint leaves the ledger items and
\* the log entries exactly as they were before it, and the writes of the rows
\* applied earlier in the run are preserved (each step starts from what the
\* previous one left, the run ends with what the last step left).
C5_FalhaSoDesfazALinha ==
    /\ \A k \in PassosSp :
         /\ ult.passos[k].antes = AntesDe(k)
         /\ ult.passos[k].res = "erro" => ult.passos[k].depois = ult.passos[k].antes
    /\ (Rodou /\ PassosSp # {}) =>
         [cs |-> contratos, logs |-> logs] =
             ult.passos[CHOOSE j \in PassosSp : \A m \in PassosSp : m <= j].depois

\* a SEND fails at the flush, after its soft close found an ATIVO item of the
\* asset to close, and after an earlier row of the run was applied
C5_Witness ==
    \E k \in PassosSp :
        /\ ult.passos[k].tipo = "unit"
        /\ ult.passos[k].res = "erro"
        /\ ult.passos[k].msg = "IntegrityError"
        /\ \E i \in DOMAIN ult.passos[k].antes.cs :
             /\ ult.passos[k].antes.cs[i].ativo = canon(lote.rows[ult.passos[k].linhas[1]]).ativo
             /\ ult.passos[k].antes.cs[i].status = ATIVO
        /\ \E j \in PassosSp : j < k /\ ult.passos[j].res = "ok"

\* item i of ledger a is still in ledger b, as the same item
MesmoItem(a, b, i) ==
    /\ i \in DOMAIN b
    /\ b[i].id = a[i].id
    /\ b[i].ativo = a[i].ativo
    /\ b[i].cabecalho_id = a[i].cabecalho_id
    /\ b[i].cod_cli = a[i].cod_cli
    /\ b[i].data_envio = a[i].data_envio

\* an item of asset a that was ATIVO in the ledger "antes" is RETORNADO in "depois"
Fechou(antes, depois, a) ==
    \E i \in DOMAIN antes :
        /\ Strip(antes[i].ativo) = a
        /\ antes[i].status = ATIVO
        /\ i \in DOMAIN depois /\ depois[i].status = RETORNADO

\* C7: after a complete swap pair (RETURN X, SEND Y) is applied, where X had an
\* ATIVO item with send date s and the movement date is m, X's item is RETORNADO
\* with return date m and Y has an ATIVO item with send date s and swap date m.
C7_TrocaHerdaDataEnvio ==
    \A k \in PassosPar :
        (ult.passos[k].res = "ok" /\ PrimeiraVez(ult.passos[k])) =>
            \E i \in DOMAIN ult.passos[k].antes.cs :
                /\ Strip(ult.passos[k].antes.cs[i].ativo) =
                       ChaveDoPasso(ult.passos[k]).ativo_retorno
                /\ ult.passos[k].antes.cs[i].status = ATIVO
                /\ ult.passos[k].depois.cs[i].status = RETORNADO
                /\ ult.passos[k].depois.cs[i].data_retorno =
                       ChaveDoPasso(ult.passos[k]).data_mov
                /\ \E j \in DOMAIN ult.passos[k].depois.cs :
                     /\ j \notin DOMAIN ult.passos[k].antes.cs
                     /\ Strip(ult.passos[k].depois.cs[j].ativo) =
                            ChaveDoPasso(ult.passos[k]).ativo_envio
                     /\ ult.passos[k].depois.cs[j].status = ATIVO
                     /\ ult.passos[k].depois.cs[j].data_envio =
                            ult.passos[k].antes.cs[i].data_envio
                     /\ ult.passos[k].depois.cs[j].data_troca =
                            ChaveDoPasso(ult.passos[k]).data_mov

\* a batch of SEND rows only
SoEnvios(rows) == \A i \in DOMAIN rows : Tp(rows[i]) = "ENVIO"

\* C8: re-running a batch of SEND rows only (the earlier run having applied it
\* without errors, no ledger change in between) creates no ledger item and no
\* log entry, and the run counts every row as ok with zero errors.
C8_ReenvioNaoCria ==
    (ult.n >= 2 /\ SoEnvios(lote.rows) /\ ult.status_antes = "PROCESSADO") =>
        /\ Len(contratos) = Len(ult.antes.cs)
        /\ Len(logs) = Len(ult.antes.logs)
        /\ ult.resumo.erros = 0
        /\ ult.resumo.ok = Len(lote.rows)

\* C9: no run removes a ledger item: every item that exists before a run, and
\* before each row or pair of the run, still exists after it.
C9_NuncaRemoveItem ==
    /\ Rodou => \A i \in DOMAIN ult.antes.cs : MesmoItem(ult.antes.cs, contratos, i)
    /\ \A k \in PassosSp :
         \A i \in DOMAIN ult.passos[k].antes.cs :
             MesmoItem(ult.passos[k].antes.cs, ult.passos[k].depois.cs, i)

\* a run that closed an item it found ATIVO and in which another row failed
C9_Witness ==
    /\ Rodou
    /\ ult.resumo.erros > 0
    /\ \E i \in DOMAIN ult.antes.cs :
         ult.antes.cs[i].status = ATIVO /\ contratos[i].status = RETORNADO

\* fingerprint of a unit row
HashUnit(row) ==
    make_mov_hash(canon(row).contrato_num, canon(row).cod_cli, Tp(row),
                  canon(row).ativo, canon(row).data_mov, "")

EntradaOk(e, h) == e.status = "OK" /\ e.mov_hash = h

\* log entries a swap-pair step must have appended: one per half applied
EntradasDaTroca(p, ch) ==
    (IF Fechou(p.antes.cs, p.depois.cs, ch.ativo_retorno) THEN << HashRet(ch) >> ELSE << >>)
    \o (IF Len(p.depois.cs) > Len(p.antes.cs) THEN << HashEnv(ch) >> ELSE << >>)

Novas(p) == SubSeq(p.depois.logs, Len(p.antes.logs) + 1, Len(p.depois.logs))

\* C10: the log is append-only and exact: each movement applied (SEND, RETURN,
\* or a half of a swap) appends exactly one entry with status OK and the
\* movement's fingerprint, a row skipped as duplicate or failed appends none,
\* and no existing entry is changed or removed.
C10_LogExato ==
    /\ Rodou => /\ Len(logs) >= Len(ult.antes.logs)
                /\ SubSeq(logs, 1, Len(ult.antes.logs)) = ult.antes.logs
    /\ \A k \in PassosSp :
         /\ Len(ult.passos[k].depois.logs) >= Len(ult.passos[k].antes.logs)
         /\ SubSeq(ult.passos[k].depois.logs, 1, Len(ult.passos[k].antes.logs)) =
                ult.passos[k].antes.logs
         /\ ult.passos[k].res \in {"dup", "erro"} => Novas(ult.passos[k]) = << >>
         /\ (ult.passos[k].tipo = "unit" /\ ult.passos[k].res = "ok") =>
                /\ Len(Novas(ult.passos[k])) = 1
                /\ EntradaOk(Novas(ult.passos[k])[1],
                             HashUnit(lote.rows[ult.passos[k].linhas[1]]))
         /\ (ult.passos[k].tipo = "par" /\ ult.passos[k].res = "ok") =>
                /\ Len(Novas(ult.passos[k])) =
                       Len(EntradasDaTroca(ult.passos[k], ChaveDoPasso(ult.passos[k])))
                /\ \A n \in DOMAIN Novas(ult.passos[k]) :
                       EntradaOk(Novas(ult.passos[k])[n],
                                 EntradasDaTroca(ult.passos[k],
                                                 ChaveDoPasso(ult.passos[k]))[n])

\* one run with a row applied, a row skipped as duplicate and a row that failed
C10_Witness ==
    /\ \E k \in PassosSp : ult.passos[k].res = "ok"
    /\ \E k \in PassosSp : ult.passos[k].res = "dup"
    /\ \E k \in PassosSp : ult.passos[k].res = "erro"

\* rows of the batch whose asset id is blank
SemAtivo(rows) == { i \in DOMAIN rows : canon(rows[i]).ativo = "" }

\* the other half of the swap pair of row k, if k is a half and the batch has it
OutraMetade(rows, k, j) ==
    /\ j # k
    /\ Tp(rows[k]) = "TROCA" /\ Tp(rows[j]) = "TROCA"
    /\ TipoTroca(rows[j]) \in {"ENVIO", "RETORNO"}
    /\ TipoTroca(rows[k]) \in {"ENVIO", "RETORNO"}
    /\ TipoTroca(rows[j]) # TipoTroca(rows[k])
    /\ OsKey(rows[k]) # ""
    /\ RowGetStr(rows[j].contrato_num) = RowGetStr(rows[k].contrato_num)
    /\ RowGetStr(rows[j].cod_cli) = RowGetStr(rows[k].cod_cli)
    /\ OsKey(rows[j]) = OsKey(rows[k])

Parceira(rows, k) == { j \in DOMAIN rows : OutraMetade(rows, k, j) }

\* no swap group of the batch has two rows of the same role
SemPapelRepetido(rows) ==
    \A i, j \in DOMAIN rows :
        (i # j /\ Tp(rows[i]) = "TROCA" /\ Tp(rows[j]) = "TROCA") =>
            \/ TipoTroca(rows[i]) # TipoTroca(rows[j])
            \/ OsKey(rows[i]) # OsKey(rows[j])
            \/ RowGetStr(rows[i].contrato_num) # RowGetStr(rows[j].contrato_num)
            \/ RowGetStr(rows[i].cod_cli) # RowGetStr(rows[j].cod_cli)

\* the batch without the rows of the set fora
SemLinhas(rows, fora) ==
    [ n \in 1..Len(SelectSeq([i \in 1..Len(rows) |-> i], LAMBDA i : i \notin fora)) |->
        rows[SelectSeq([i \in 1..Len(rows) |-> i], LAMBDA i : i \notin fora)[n]] ]

\* the last run, had it been given the batch without the rows of fora
RodarSem(fora) ==
    Aplicar(ult.antes.cs, ult.antes.logs, ult.antes.cache,
            [ rows |-> SemLinhas(lote.rows, fora),
              msgs |-> [n \in 1..(Len(lote.rows) - Cardinality(fora)) |-> ""],
              status |-> "PREVIEW" ])

LinhaK == CHOOSE k \in SemAtivo(lote.rows) : TRUE

\* exactly one row of the batch has a blank asset id, its only defect, and the
\* other rows (the other half of its pair aside) are valid: run without it they
\* give no error
Cenario4 ==
    /\ Rodou
    /\ Cardinality(SemAtivo(lote.rows)) = 1
    /\ SemPapelRepetido(lote.rows)
    /\ RodarSem({LinhaK} \cup Parceira(lote.rows, LinhaK)).resumo.erros = 0

\* C4 as stated: whatever the kind of the malformed row k (SEND, RETURN or a
\* half of a swap), the summary has 1 error and N-1 ok.
C4_UmErroRestoOk ==
    Cenario4 => /\ ult.resumo.erros = 1
                /\ ult.resumo.ok = Len(lote.rows) - 1

\* C4 amended: the summary has 1 error; every row other than k and the other
\* half of k's swap pair is applied (ledger and log are those of the batch run
\* without them); ok is N-1, or N-2 when k is a half of a complete swap pair.
C4_IsolamentoDaLinha ==
    Cenario4 =>
        /\ ult.resumo.erros = 1
        /\ ult.resumo.ok = Len(lote.rows) - 1 - Cardinality(Parceira(lote.rows, LinhaK))
        /\ contratos = RodarSem({LinhaK} \cup Parceira(lote.rows, LinhaK)).cs
        /\ logs = RodarSem({LinhaK} \cup Parceira(lote.rows, LinhaK)).logs

\* the malformed row is a half of a complete swap pair and a third row is applied
C4_Witness ==
    /\ Cenario4
    /\ Parceira(lote.rows, LinhaK) # {}
    /\ \E k \in PassosSp : ult.passos[k].tipo = "unit" /\ ult.passos[k].res = "ok"

\* ---- swap rows that are never applied
ChaveTrocaValida(row) == RowGetStr(row.contrato_num) # "" /\ OsKey(row) # ""

MeiaValida(row) ==
    Tp(row) = "TROCA" /\ TipoTroca(row) \in {"ENVIO", "RETORNO"} /\ ChaveTrocaValida(row)

MesmoGrupo(a, b) ==
    /\ RowGetStr(a.contrato_num) = RowGetStr(b.contrato_num)
    /\ RowGetStr(a.cod_cli) = RowGetStr(b.cod_cli)
    /\ OsKey(a) = OsKey(b)

\* the valid swap rows of the group of row i
GrupoDe(rows, i) ==
    { j \in DOMAIN rows : MeiaValida(rows[j]) /\ MesmoGrupo(rows[j], rows[i]) }

\* row i belongs to a swap group that has rows of one role only
Incompleto(rows, i) ==
    /\ MeiaValida(rows[i])
    /\ \A j \in GrupoDe(rows, i) : TipoTroca(rows[j]) = TipoTroca(rows[i])

\* the last run did to ledger and log, and counted as ok, what it would have
\* done without the rows of fora, each of which it counted as one error
ComoSem(fora) ==
    /\ contratos = RodarSem(fora).cs
    /\ logs = RodarSem(fora).logs
    /\ ult.resumo.ok = RodarSem(fora).resumo.ok
    /\ ult.resumo.erros = RodarSem(fora).resumo.erros + Cardinality(fora)

\* C11: a swap group with only SEND rows or only RETURN rows is never applied:
\* no ledger item change, no log entry, and its row is reported as an error.
C11_GrupoIncompletoNaoAplica ==
    Rodou =>
        \A i \in DOMAIN lote.rows :
            Incompleto(lote.rows, i) =>
                /\ lote.msgs[i] # ""
                /\ i \in { ult.resumo.erros_detalhes[n] : n \in DOMAIN ult.resumo.erros_detalhes }
                /\ ComoSem(GrupoDe(lote.rows, i))

\* a run with an incomplete group and a row that was applied
C11_Witness ==
    /\ Rodou
    /\ \E i \in DOMAIN lote.rows : Incompleto(lote.rows, i)
    /\ \E k \in PassosSp : ult.passos[k].res = "ok"

\* row i is a swap row without a valid role, without contract / work order, or
\* with a role already taken by an earlier row of its group
LinhaTrocaInvalida(rows, i) ==
    /\ Tp(rows[i]) = "TROCA"
    /\ \/ ~MeiaValida(rows[i])
       \/ \E j \in 1..(i - 1) :
            /\ MeiaValida(rows[j]) /\ MesmoGrupo(rows[j], rows[i])
            /\ TipoTroca(rows[j]) = TipoTroca(rows[i])

Invalidas(rows) == { i \in DOMAIN rows : LinhaTrocaInvalida(rows, i) }

SemAtivoAberto(cs, a) ==
    ~\E i \in DOMAIN cs : Strip(cs[i].ativo) = a /\ cs[i].status = ATIVO

\* unit RETURN steps of the last run whose row has its required fields
PassosRetorno ==
    { k \in PassosSp :
        /\ ult.passos[k].tipo = "unit"
        /\ Tp(lote.rows[ult.passos[k].linhas[1]]) = "RETORNO"
        /\ canon(lote.rows[ult.passos[k].linhas[1]]).ativo # ""
        /\ canon(lote.rows[ult.passos[k].linhas[1]]).data_mov # 0 }

\* the item the finder selects for the RETURN row of step p (0: none)
Selecionado(p, row) ==
    find_item_aberto(p.antes.cs,
                     require_cabecalho(<< >>, row, canon(row).contrato_num,
                                       CliOuNone(canon(row).cod_cli)).cab,
                     canon(row).cod_cli, canon(row).ativo)

RetornoSemItem(p, row) ==
    (SemAtivoAberto(p.antes.cs, canon(row).ativo) /\ ~Dup(p.antes.logs, HashUnit(row))) =>
        /\ p.res = "erro"
        /\ p.depois = p.antes
        /\ lote.msgs[p.linhas[1]] # ""

RetornoFechaSelecionado(p, row, f) ==
    f # 0 =>
        /\ p.res = "ok"
        /\ Len(p.depois.cs) = Len(p.antes.cs)
        /\ p.depois.cs[f].status = RETORNADO
        /\ p.depois.cs[f].data_retorno = canon(row).data_mov
        /\ \A j \in DOMAIN p.antes.cs : j # f => p.depois.cs[j] = p.antes.cs[j]

\* C13: a RETURN (or the RETURN half of a swap) of an asset with no ATIVO item
\* anywhere is a row error and leaves ledger and log unchanged; when an ATIVO
\* item exists, exactly the item the finder selects becomes RETORNADO with
\* return date = movement date and no other item is modified.
C13_RetornoFechaUmItem ==
    /\ \A k \in PassosRetorno :
         /\ RetornoSemItem(ult.passos[k], lote.rows[ult.passos[k].linhas[1]])
         /\ RetornoFechaSelecionado(ult.passos[k], lote.rows[ult.passos[k].linhas[1]],
                                    Selecionado(ult.passos[k],
                                                lote.rows[ult.passos[k].linhas[1]]))
    /\ \A k \in PassosPar :
         (PrimeiraVez(ult.passos[k])
          /\ SemAtivoAberto(ult.passos[k].antes.cs, ChaveDoPasso(ult.passos[k]).ativo_retorno)) =>
             /\ ult.passos[k].res = "erro"
             /\ ult.passos[k].depois = ult.passos[k].antes

\* C14: when aplicar_lote returns, the batch is PROCESSADO if and only if the
\* run's error count is 0 (no row, pair or group failed), and
\* PROCESSADO_COM_ERROS otherwise.
C14_StatusConformeErros ==
    Rodou =>
        /\ lote.status = "PROCESSADO" <=> ult.resumo.erros = 0
        /\ lote.status = "PROCESSADO_COM_ERROS" <=> ult.resumo.erros # 0
        /\ ult.resumo.erros = 0 <=>
               \A k \in DOMAIN ult.passos : ult.passos[k].res # "erro"

\* a run without errors on a batch that an earlier run left PROCESSADO_COM_ERROS
C14_Witness ==
    /\ ult.n = 2
    /\ ult.status_antes = "PROCESSADO_COM_ERROS"
    /\ ult.resumo.erros = 0
    /\ lote.status = "PROCESSADO"

\* C18: once a batch is PROCESSADO or PROCESSADO_COM_ERROS, a later aplicar_lote
\* call on it changes neither its status nor the ledger.  Stated for batches
\* whose asset ids arrive in canonical form.
C18_LoteConsumidoUmaVez ==
    (Rodou /\ ult.status_antes \in {"PROCESSADO", "PROCESSADO_COM_ERROS"}
           /\ IdsCanonicos(lote.rows)) =>
        /\ lote.status = ult.status_antes
        /\ contratos = ult.antes.cs

\* C19: a row the preview flags as duplicate (its fingerprint is in the log the
\* preview reads) is ignored at commit: its step writes no ledger item and no
\* log entry; conversely the rows of a swap pair that a commit applied are
\* flagged as duplicate when the same rows are previewed again.
C19_DuplicadoDoPreview ==
    /\ \A k \in PassosSp :
         (\A n \in DOMAIN ult.passos[k].linhas :
              PreviewDuplicado(ult.antes.logs, lote.rows, ult.passos[k].linhas[n]))
         => ult.passos[k].depois = ult.passos[k].antes
    /\ \A k \in PassosPar :
         ult.passos[k].res = "ok" =>
             \A n \in DOMAIN ult.passos[k].linhas :
                 PreviewDuplicado(logs, lote.rows, ult.passos[k].linhas[n])

\* the last call raised / was terminated from outside
Levantou == ult.n = 0 /\ "erro" \in DOMAIN ult

Interrompido == ult.n = 0 /\ "interrompido" \in DOMAIN ult

\* C15: aplicar_lote raises if and only if the batch does not exist, and then
\* changes no ledger, log or batch state; for an existing batch it returns a
\* summary whatever errors its rows produce.
C15_SoLevantaSemLote ==
    /\ Levantou => /\ ult.lote_antes = NoLote
                   /\ contratos = ult.antes.cs
                   /\ logs = ult.antes.logs
    /\ Rodou => /\ ult.status_antes # "NENHUM"
                /\ ult.resumo.processados = ult.resumo.ok + ult.resumo.erros
                /\ lote.status \in {"PROCESSADO", "PROCESSADO_COM_ERROS"}

\* a run that returned a summary although one row hit a missing header, one a
\* RETURN without ATIVO item and one a storage error
C15_Witness ==
    /\ Rodou
    /\ \E k \in PassosSp : ult.passos[k].msg = "ValueError: Cabecalho nao encontrado"
    /\ \E k \in PassosSp : ult.passos[k].msg = "ValueError: RETORNO sem item ATIVO"
    /\ \E k \in PassosSp : ult.passos[k].msg = "IntegrityError"

C16_ConcorrenciaUmAtivo ==
    (tx # NoTx /\ \A i \in TxIds : tx[i].pc = "fim")
        => Cardinality(AtivosDe(contratos, "X")) <= 1

\* C20: whatever registrations and resolutions came before, resolving
\* (contract number, client code) through the memo cache returns the header
\* that the uncached lookup returns on the current storage.
C20_CacheIgualAoLookup ==
    resol # NoResol => resol.cab = resol.direto

\* headers of the table H a row may resolve to under the precedence: the id
\* stored in the row if it names a header, else the lowest id among the headers
\* of the row's contract and client, else the lowest id among the headers of
\* the row's contract, else none
CabsDoContrato(H, row) == { h.id : h \in { g \in H : g.contrato_num = Strip(row.contrato_num) } }

CabsDoCliente(H, row) ==
    { h.id : h \in { g \in H : g.contrato_num = Strip(row.contrato_num)
                               /\ Strip(row.cod_cli) # "" /\ g.cod_cli = Strip(row.cod_cli) } }

CabEsperado(H, row) ==
    IF row.cabecalho_id_resolvido \in { h.id : h \in H } THEN {row.cabecalho_id_resolvido}
    ELSE IF CabsDoCliente(H, row) # {} THEN {MinId(CabsDoCliente(H, row))}
    ELSE IF CabsDoContrato(H, row) # {} THEN {MinId(CabsDoContrato(H, row))}
    ELSE {}

PassoCabOk(p, row, E) ==
    /\ E = {} => /\ p.res = "erro"
                 /\ p.msg = "ValueError: Cabecalho nao encontrado"
                 /\ p.depois = p.antes
    /\ E # {} => p.msg # "ValueError: Cabecalho nao encontrado"
    /\ (E # {} /\ p.res = "ok") =>
          /\ p.depois.logs[Len(p.depois.logs)].contrato_cabecalho_id \in E
          /\ p.depois.cs[Len(p.depois.cs)].cabecalho_id \in E

\* C21: the header of a row is the one its stored header id names if that
\* header exists, else a header of its contract and client, else the lowest-id
\* header of its contract; with none of them the row fails with
\* header-not-found and is not applied.
C21_PrecedenciaCabecalho ==
    Rodou =>
        \A k \in DOMAIN ult.passos :
            ult.passos[k].tipo = "unit" =>
                PassoCabOk(ult.passos[k], lote.rows[ult.passos[k].linhas[1]],
                           CabEsperado(ult.antes.cabs, lote.rows[ult.passos[k].linhas[1]]))

Procurou == ult.n = 0 /\ "achado" \in DOMAIN ult

\* the three tiers of the finder for the arguments of the last call
Camada1 ==
    IF ult.cod_cli = Ausente THEN {}
    ELSE { i \in AtivosDe(contratos, ult.ativo) :
             contratos[i].cabecalho_id = ult.cab_id /\ contratos[i].cod_cli = ult.cod_cli }

Camada2 == { i \in AtivosDe(contratos, ult.ativo) : contratos[i].cabecalho_id = ult.cab_id }

Camada3 == AtivosDe(contratos, ult.ativo)

CamadaEscolhida ==
    IF Camada1 # {} THEN Camada1 ELSE IF Camada2 # {} THEN Camada2 ELSE Camada3

MaisAntigo(i, S) ==
    \A j \in S : \/ contratos[i].data_envio < contratos[j].data_envio
                 \/ (contratos[i].data_envio = contratos[j].data_envio /\ i <= j)

\* C22: find_active answers from the first non-empty tier (header + client +
\* asset, header + asset, asset anywhere), with the earliest send date and then
\* the lowest id inside the tier, and answers nothing only when the asset has
\* no ATIVO item.
C22_FinderPorCamadas ==
    Procurou =>
        /\ ult.achado = 0 <=> AtivosDe(contratos, ult.ativo) = {}
        /\ ult.achado # 0 => /\ ult.achado \in CamadaEscolhida
                             /\ MaisAntigo(ult.achado, CamadaEscolhida)

\* the call fell through to the third tier, which holds two ATIVO items of
\* other headers, the later id sent first
C22_Witness ==
    /\ Procurou
    /\ Camada1 = {} /\ Camada2 = {}
    /\ Cardinality(Camada3) >= 2
    /\ \E j \in Camada3 : j < ult.achado

\* unit steps of the last run that applied a SEND row
EnviosAplicados ==
    IF Rodou
    THEN { k \in DOMAIN ult.passos :
             /\ ult.passos[k].tipo = "unit"
             /\ ult.passos[k].res = "ok"
             /\ Tp(lote.rows[ult.passos[k].linhas[1]]) = "ENVIO" }
    ELSE {}

EnvioDeixaUmAtivo(p, row) ==
    /\ AtivosDe(p.depois.cs, canon(row).ativo) = {Len(p.depois.cs)}
    /\ Len(p.depois.cs) = Len(p.antes.cs) + 1
    /\ p.depois.cs[Len(p.depois.cs)].cabecalho_id =
           LookupCab(canon(row).contrato_num, canon(row).cod_cli)
    /\ p.depois.cs[Len(p.depois.cs)].data_envio = canon(row).data_mov
    /\ \A i \in DOMAIN p.antes.cs :
           p.antes.cs[i].ativo = canon(row).ativo => p.depois.cs[i].status = RETORNADO

\* C23: right after an applied SEND of asset A under header H on day d the
\* ledger holds exactly one ATIVO item of A, the new one under H sent on d;
\* every earlier item of A, under whatever header, is RETORNADO.
C23_EnvioDeixaUmAtivo ==
    \A k \in EnviosAplicados :
        EnvioDeixaUmAtivo(ult.passos[k], lote.rows[ult.passos[k].linhas[1]])

\* unit steps of the last run whose row passed validation with its fingerprint
\* already in the audit log
PassosRepetidos ==
    IF Rodou
    THEN { k \in DOMAIN ult.passos :
             /\ ult.passos[k].tipo = "unit"
             /\ Tp(lote.rows[ult.passos[k].linhas[1]]) \in {"ENVIO", "RETORNO"}
             /\ canon(lote.rows[ult.passos[k].linhas[1]]).ativo # ""
             /\ Dup(ult.passos[k].antes.logs, HashUnit(lote.rows[ult.passos[k].linhas[1]])) }
    ELSE {}

TemAtivo(p, row) == AtivosDe(p.antes.cs, canon(row).ativo) # {}

\* skipped: nothing written, no message; reapplied: one fresh entry with the
\* fingerprint, or the error the row gives when its fingerprint is not logged
RepeticaoOk(p, row, i) ==
    /\ Tp(row) = "ENVIO" => (p.res = "dup" <=> TemAtivo(p, row))
    /\ Tp(row) = "RETORNO" => (p.res = "dup" <=> ~TemAtivo(p, row))
    /\ p.res = "dup" => (p.depois = p.antes /\ lote.msgs[i] = "")
    /\ p.res = "ok" => /\ Len(p.depois.logs) = Len(p.antes.logs) + 1
                       /\ EntradaOk(p.depois.logs[Len(p.depois.logs)], HashUnit(row))
    /\ p.res = "erro" =>
          p.msg = ProcUnitario([cs |-> p.antes.cs, logs |-> << >>, cache |-> << >>], row).msg

ParesValidos ==
    IF Rodou
    THEN { k \in DOMAIN ult.passos :
             /\ ult.passos[k].tipo = "par"
             /\ ChaveDoPasso(ult.passos[k]).ativo_envio # ""
             /\ ChaveDoPasso(ult.passos[k]).ativo_retorno # ""
             /\ ChaveDoPasso(ult.passos[k]).data_mov # 0 }
    ELSE {}

PulaRetorno(p, ch) ==
    Dup(p.antes.logs, HashRet(ch)) /\ AtivosDe(p.antes.cs, ch.ativo_retorno) = {}

PulaEnvio(p, ch) ==
    Dup(p.antes.logs, HashEnv(ch)) /\ AtivosDe(p.antes.cs, ch.ativo_envio) # {}

Escreveu(p, h) == \E j \in DOMAIN Novas(p) : Novas(p)[j].mov_hash = h

ReplayDaTroca(p, ch) ==
    /\ p.res = "ok" => /\ Escreveu(p, HashRet(ch)) <=> ~PulaRetorno(p, ch)
                       /\ Escreveu(p, HashEnv(ch)) <=> ~PulaEnvio(p, ch)
    /\ (PulaRetorno(p, ch) /\ PulaEnvio(p, ch)) =>
          /\ p.res = "ok"
          /\ p.depois = p.antes
          /\ lote.msgs[p.linhas[1]] = "" /\ lote.msgs[p.linhas[2]] = ""

PassosComItemNovo ==
    { k \in PassosSp : /\ ult.passos[k].res = "ok"
                       /\ Len(ult.passos[k].depois.cs) > Len(ult.passos[k].antes.cs) }

ItemNovo(p) == p.depois.cs[Len(p.depois.cs)]

\* the log entry of the SEND (or SEND half) that created the item
EntradaDoEnvio(p) ==
    { j \in DOMAIN Novas(p) : Novas(p)[j].tp_transacao \in {"ENVIO", "TROCA-ENVIO"} }

\* C26: the item created by a SEND or by the SEND half of a swap carries the
\* asset id of the movement's log entry and fingerprint (the id also used for
\* the soft close), whatever the raw asset field of the row.
C26_ItemComIdDoMovimento ==
    \A k \in PassosComItemNovo :
        \A j \in EntradaDoEnvio(ult.passos[k]) :
            /\ ItemNovo(ult.passos[k]).ativo = Novas(ult.passos[k])[j].ativo
            /\ ItemNovo(ult.passos[k]).ativo = Novas(ult.passos[k])[j].mov_hash[4]

\* the savepoint step that ran right before step k, 0 if k is the first
PassoAnterior(k) ==
    IF { j \in PassosSp : j < k } = {} THEN 0
    ELSE CHOOSE j \in PassosSp : j < k /\ \A i \in PassosSp : i < k => i <= j

\* C27: within one run the non-swap rows are applied one after the other in
\* ascending row position, each exactly once, and every swap pair is applied
\* after all of them, on the ledger and log they left.
C27_UnitariosAntesDasTrocas ==
    Rodou =>
        /\ \A j, k \in DOMAIN ult.passos :
             j < k =>
               /\ (ult.passos[j].tipo = "unit" /\ ult.passos[k].tipo = "unit")
                     => ult.passos[j].linhas[1] < ult.passos[k].linhas[1]
               /\ ult.passos[j].tipo = "par" => ult.passos[k].tipo # "unit"
        /\ \A i \in DOMAIN lote.rows :
             Tp(lote.rows[i]) # "TROCA" =>
                Cardinality({ k \in DOMAIN ult.passos :
                                ult.passos[k].tipo = "unit" /\ ult.passos[k].linhas = <<i>> }) = 1
        /\ \A k \in PassosSp :
             ult.passos[k].antes =
                 IF PassoAnterior(k) = 0 THEN [cs |-> ult.antes.cs, logs |-> ult.antes.logs]
                 ELSE ult.passos[PassoAnterior(k)].depois

\* a pair whose rows stand before a SEND row in the batch closes the item that
\* this SEND created in the same run
C27_Witness ==
    /\ Rodou
    /\ \E k \in PassosSp :
         /\ ult.passos[k].tipo = "par"
         /\ ult.passos[k].res = "ok"
         /\ \E u \in PassosSp :
              /\ ult.passos[u].tipo = "unit"
              /\ ult.passos[u].res = "ok"
              /\ ult.passos[u].linhas[1] > ult.passos[k].linhas[1]
              /\ ult.passos[u].linhas[1] > ult.passos[k].linhas[2]
              /\ Len(ult.passos[u].depois.cs) > Len(ult.passos[u].antes.cs)
              /\ ult.passos[k].depois.cs[Len(ult.passos[u].depois.cs)].status = RETORNADO

\* C28: an item that is RETORNADO stays as it is: no later row or pair makes it
\* ATIVO again or changes its return date.
C28_RetornadoIntocado ==
    \A k \in PassosSp :
        \A i \in DOMAIN ult.passos[k].antes.cs :
            ult.passos[k].antes.cs[i].status = RETORNADO =>
                /\ ult.passos[k].depois.cs[i].status = RETORNADO
                /\ ult.passos[k].depois.cs[i].data_retorno =
                       ult.passos[k].antes.cs[i].data_retorno

\* C29: the processed count of a summary is the number of rows of the batch:
\* every row, also each of the two rows of a swap pair, is counted once as ok
\* or as error.
C29_ProcessadosIgualLinhas ==
    Rodou => /\ ult.resumo.processados = Len(lote.rows)
             /\ ult.resumo.processados = ult.resumo.ok + ult.resumo.erros

\* rows of the steps of the last run that were applied or skipped as duplicate
LinhasSemErro ==
    UNION { { ult.passos[k].linhas[j] : j \in DOMAIN ult.passos[k].linhas } :
            k \in { i \in PassosSp : ult.passos[i].res \in {"ok", "dup"} } }

NoDetalhe(i) == \E j \in DOMAIN ult.resumo.erros_detalhes : ult.resumo.erros_detalhes[j] = i

\* C30: the error-detail list of a summary has as many entries as the error
\* count, and no row applied or skipped as duplicate in that run is in it.
C30_DetalhesSoDosErros ==
    Rodou => /\ Len(ult.resumo.erros_detalhes) = ult.resumo.erros
             /\ \A i \in LinhasSemErro : ~NoDetalhe(i)

====
